---------------------------- MODULE Spec2Model ----------------------------
(***************************************************************************)
(* Model of the rate-limit probing engine in src/rate_limiter_checker.py:  *)
(* the request executor (send_request), the burst scheduler                *)
(* (run_burst_test, run_burst_unique_test), the pacer (run_sustained_test, *)
(* run_unique_terms_test) and the ramp controller (run_ramp_test).         *)
(*                                                                         *)
(* Time is a discrete clock `now` counted in ticks of 1/TicksPerSec        *)
(* seconds.  Rates (the float arguments rps, max_rps, step_size) are       *)
(* rationals with the fixed denominator RateDen: the integer r stands for  *)
(* r/RateDen requests per second.  Only rates whose interval 1/R is a      *)
(* whole number of ticks are drawn, so 1.0/rps is exact in the model.      *)
(***************************************************************************)
EXTENDS Integers, Sequences, FiniteSets, TLC

VARIABLES
    config,               \* the dict main() builds from CONFIG and passes on
    now,                  \* the clock read by time.time()/time.perf_counter()
    pc,                   \* control location of the running function
    strategy,             \* which run_* function is being executed
    args,                 \* its arguments
    report,               \* the TestReport: results, start_time, end_time
    ret,                  \* what the function returned to its caller
    call,                 \* executor harness: the call send_request is given
    test,                 \* executor harness: what send_request returned
    i,                    \* loop index of the paced / submitting loop
    loop_start,           \* loop_start of the current paced iteration
    cur,                  \* the call in flight on the main thread
    issued,               \* history: every call issued, in issue order
    interval,             \* interval = 1.0 / rps of the current paced loop
    total,                \* total (or step_requests) of the current loop
    current_rps,          \* ramp: current_rps
    rate_limit_detected,  \* ramp: rate_limit_detected
    limited_in_step,      \* ramp: limited_in_step
    steps,                \* history: the ramp steps begun (rate, interval, calls)
    marker,               \* history: rate printed by "Rate limit hit at"
    work_queue,           \* pool._work_queue: submitted, not yet taken
    threads,              \* pool._threads: per worker, the call it runs or -1
    idle_semaphore,       \* pool._idle_semaphore
    futures,              \* call index -> future state and result
    waiter,               \* as_completed: installed flag, finished_futures
    pending,              \* as_completed: futures not yet yielded
    yield_list,           \* as_completed: futures being yielded right now
    completed,            \* history: call indices in completion order
    same_results,         \* compare: same_results
    unique_results,       \* compare: unique_results
    same_limited,         \* compare: same_limited
    unique_limited,       \* compare: unique_limited
    conclusion,           \* history: the CONCLUSION lines printed
    terms,                \* the pool list a rotating strategy reads
    key,                  \* key pool harness: the keys picked
    stats,                \* what per_term_stats() returned
    summary,              \* history: the statistics print_summary printed
    finished_at,          \* history: when each call of a paced loop returned
    app_ids,              \* lookup_app_metadata: app_ids
    metadata,             \* lookup_app_metadata: metadata
    warned,               \* history: the batches a WARNING was printed for
    batches,              \* history: the batches requested and what came back
    j,                    \* repeat: j of the inner loop
    req_num               \* repeat: req_num

sendVars  == <<call, test>>
paceVars  == <<i, loop_start, cur, interval, total>>
rampVars  == <<current_rps, rate_limit_detected, limited_in_step, steps, marker>>
burstVars == <<work_queue, threads, idle_semaphore, futures,
               waiter, pending, yield_list, completed>>
auxVars   == <<same_results, unique_results, same_limited, unique_limited,
               conclusion, terms, key, stats, summary, finished_at>>
lookupVars == <<app_ids, metadata, warned, batches>>
repeatVars == <<j, req_num>>
vars == <<config, now, pc, strategy, args, report, ret, issued,
          sendVars, paceVars, rampVars, burstVars, auxVars, lookupVars,
          repeatVars>>

---------------------------------------------------------------------------
(* Values *)

\* Python's None, for the optional term override and RequestResult.error
None == "<None>"

\* clock resolution: the least one at which 1/R is whole for R in 1/2..6
TicksPerSec == 60

\* denominator of the rates
RateDen == 2

\* resp.text[:200]
PreviewLen == 200

\* the `limit_pct > 20` threshold of the ramp
LimitPct == 20

\* CONFIG, reduced to the fields the strategies read
CONFIG == [method |-> "GET", params |-> [term |-> "bill tracker"]]

\* TERM_POOLS, each pool cut to its first entries
TERM_POOLS ==
    [small  |-> <<"bill tracker", "weather app">>,
     medium |-> <<"bill tracker", "weather app", "fitness coach">>,
     large  |-> <<"bill tracker", "weather app", "fitness coach", "photo editor">>]

Min(a, b) == IF a < b THEN a ELSE b
Max(a, b) == IF a > b THEN a ELSE b

\* a response body of n characters
Text(n) == [k \in 1..n |-> "x"]

\* s[:n]
Take(s, n) == SubSeq(s, 1, Min(Len(s), n))

---------------------------------------------------------------------------
(* The transport: what requests.request does with one call *)

\* a reply with status s and a body of n characters
Response(s, n) ==
    [kind |-> "response", status |-> s, text |-> Text(n), exc |-> None, latency |-> 0]

\* no reply: requests.request raises e
Failure(e) ==
    [kind |-> "raise", status |-> 0, text |-> <<>>, exc |-> e, latency |-> 0]

\* the reply rp arriving (or the failure being raised) after lat ticks
After(rp, lat) == [rp EXCEPT !.latency = lat]

\* the transport failures requests raises; all derive from Exception
TransportErrors == {"ConnectionError", "ReadTimeout", "NameResolutionError"}

\* str(e) of a transport failure
ErrStr(e) == e

\* `except Exception`, narrowed to one class
ExceptionClasses_m == {"ConnectionError"}

\* `except Exception`: the classes the handler of send_request catches
ExceptionClasses == TransportErrors \cup {"KeyError", "ValueError"}

\* round(latency, 1) of a latency of `ticks` ticks, in tenths of a millisecond
LatencyMs(ticks) == (2 * ticks * 10000 + TicksPerSec) \div (2 * TicksPerSec)

\* `term or d`: Python's or on an optional string
Or(term, d) == IF term = None \/ term = "" THEN d ELSE term

\* the params of the call: dict(config["params"]) with the override
Params(cfg, term) ==
    IF term # None THEN [cfg.params EXCEPT !.term = term] ELSE cfg.params

\* the except branch reporting the status of the failure instead of 0
FailureResult_m(term, ts, tr) ==
    [status_code |-> 599, latency_ms |-> 0, timestamp |-> ts,
     term |-> Or(term, ""), error |-> ErrStr(tr.exc), body_preview |-> <<>>]

\* the except branch of send_request
FailureResult(term, ts, tr) ==
    [status_code |-> 0, latency_ms |-> 0, timestamp |-> ts,
     term |-> Or(term, ""), error |-> ErrStr(tr.exc), body_preview |-> <<>>]

\* the try branch of send_request on a received response
ResponseResult(cfg, term, ts, tr) ==
    [status_code |-> tr.status, latency_ms |-> LatencyMs(tr.latency),
     timestamp |-> ts,
     term |-> Or(term, Params(cfg, term).term), error |-> None,
     body_preview |-> IF tr.status # 200 THEN Take(tr.text, PreviewLen) ELSE <<>>]

\* send_request propagates the exception: the handler does not catch it
SendRaises(tr) == tr.kind = "raise" /\ tr.exc \notin ExceptionClasses

\* send_request(config, request_num, term) issued at time ts
SendRequest(cfg, term, ts, tr) ==
    IF tr.kind = "raise" THEN FailureResult(term, ts, tr)
    ELSE ResponseResult(cfg, term, ts, tr)

---------------------------------------------------------------------------
(* Bounds and input sets *)

\* a latency below every interval drawn
ShortLatency == 20

\* a latency equal to the interval of 1 req/s
MidLatency == 60

\* a latency above the interval of every rate of 1 req/s or more
LongLatency == 90

\* latencies the paced calls draw
Latencies == {ShortLatency, MidLatency, LongLatency}

\* a body longer than the preview
LongBody == 250

\* replies the executor harness draws
SendReplies ==
    {Response(s, n) : s \in {200, 201, 204, 403, 404, 429, 500}, n \in {0, 3, LongBody}}
    \cup {Failure(e) : e \in TransportErrors}

\* replies the bursts draw
BurstReplies == {Response(200, 1), Failure("ReadTimeout")}

\* replies the paced strategies draw
RunReplies == {Response(200, 1), Response(429, 1), Failure("ReadTimeout")}

\* TestReport()
NewReport == [results |-> <<>>, start_time |-> 0, end_time |-> 0]

\* argparse namespace, reduced to what the run_* functions are passed
Args(n, c, r, d, m, sd, ss, p) ==
    [num_requests |-> n, concurrency |-> c, rps |-> r, duration |-> d,
     max_rps |-> m, step_duration |-> sd, step_size |-> ss, pool |-> p]

NoArgs == Args(0, 0, 0, 0, 0, 0, 0, "large")

NoCall == [idx |-> 0, term |-> None, ts |-> 0]

\* the state shared by every entry point, before the function runs
InitCommon ==
    /\ config = CONFIG
    /\ now = TicksPerSec
    /\ report = NewReport
    /\ ret = <<>>
    /\ issued = <<>>
    /\ test = <<>>
    /\ i = 0 /\ loop_start = 0 /\ cur = NoCall /\ interval = 0 /\ total = 0
    /\ current_rps = 0 /\ rate_limit_detected = FALSE /\ limited_in_step = 0
    /\ steps = <<>> /\ marker = <<>>
    /\ work_queue = <<>> /\ threads = <<>> /\ idle_semaphore = 0
    /\ futures = <<>> /\ waiter = [installed |-> FALSE, finished_futures |-> <<>>]
    /\ pending = {} /\ yield_list = <<>> /\ completed = <<>>
    /\ same_results = <<>> /\ unique_results = <<>>
    /\ same_limited = 0 /\ unique_limited = 0 /\ conclusion = <<>>
    /\ terms = <<>> /\ key = <<>> /\ stats = <<>> /\ summary = <<>>
    /\ finished_at = <<>>
    /\ app_ids = <<>> /\ metadata = <<>> /\ warned = <<>> /\ batches = <<>>
    /\ j = 0 /\ req_num = 0

---------------------------------------------------------------------------
(* Request executor: one send_request call *)

\* the calls the harness draws: override, reply, latency
SendCalls ==
    {[term |-> t, tr |-> After(rp, lat)] :
        t \in {None, "weather app"}, rp \in SendReplies, lat \in {0, ShortLatency}}

InitSend ==
    /\ InitCommon
    /\ pc = "send"
    /\ strategy = "send"
    /\ args = NoArgs
    /\ call \in SendCalls

\* test = send_request(config, 0, term): returns a RequestResult or raises
ExecSend ==
    /\ pc = "send"
    /\ now' = now + call.tr.latency
    /\ issued' = Append(issued, [idx |-> 0, term |-> Params(config, call.term).term, ts |-> now])
    /\ IF SendRaises(call.tr)
         THEN /\ pc' = "raised"
              /\ test' = test
         ELSE /\ pc' = "returned"
              /\ test' = Append(test, SendRequest(config, call.term, now, call.tr))
    /\ UNCHANGED <<config, repeatVars, lookupVars, auxVars, strategy, args, report, ret, call, paceVars, rampVars, burstVars>>

NextSend == ExecSend

SpecSend == InitSend /\ [][NextSend]_vars

\* C1: every RequestOutcome send_request returns has an error message
\* present if and only if its statusCode is 0
ErrorIffStatusZero ==
    \A k \in 1..Len(test) : (test[k].error # None) <=> (test[k].status_code = 0)

\* a transport failure was turned into an outcome
ErrorIffStatusZero_w ==
    /\ pc = "returned" /\ Len(test) = 1
    /\ call.tr.kind = "raise" /\ test[1].status_code = 0 /\ test[1].error # None

\* C2: send_request never raises: once the call is over exactly one
\* RequestOutcome was returned, and on a transport failure it has
\* statusCode 0, latencyMs 0 and an error
NeverRaises ==
    pc # "send" =>
        /\ pc = "returned"
        /\ Len(test) = 1
        /\ call.tr.kind = "raise" =>
              /\ test[1].status_code = 0
              /\ test[1].latency_ms = 0
              /\ test[1].error # None

\* a read timeout that took time was returned as an outcome
NeverRaises_w ==
    /\ pc = "returned" /\ call.tr.exc = "ReadTimeout" /\ call.tr.latency > 0
    /\ Len(test) = 1 /\ test[1].latency_ms = 0

---------------------------------------------------------------------------
(* Burst scheduler: run_burst_test and run_burst_unique_test *)

\* most calls a burst is asked for
MaxTotal == 3

\* largest pool size a burst is asked for
MaxConcurrency == 2

\* ticks of the clock that pass while a call of a burst completes
CallTicks == 1

NoSendCall == [term |-> None, tr |-> Response(200, 0)]

BurstArgs ==
    {Args(n, c, 0, 0, 0, 0, 0, p) :
        n \in 0..MaxTotal, c \in 0..MaxConcurrency, p \in {"small"}}

InitBurst ==
    /\ InitCommon
    /\ pc = "enter"
    /\ strategy \in {"burst", "burst-unique"}
    /\ args \in BurstArgs
    /\ call = NoSendCall

\* the pool named on the command line ignored
Terms_m(pool_name) == TERM_POOLS["large"]

\* terms = TERM_POOLS.get(pool_name, TERM_POOLS["large"])
Terms(pool_name) ==
    IF pool_name \in DOMAIN TERM_POOLS THEN TERM_POOLS[pool_name] ELSE TERM_POOLS["large"]

\* the index clamped to the pool instead of wrapped around
TermAt_m(pool, k) == pool[Min(k, Len(pool) - 1) + 1]

\* terms[i % len(terms)]
TermAt(pool, k) == pool[(k % Len(pool)) + 1]

\* ThreadPoolExecutor(max_workers=concurrency) with one worker too many
MaxWorkers_m(concurrency) == concurrency + 1

\* ThreadPoolExecutor(max_workers=concurrency)
MaxWorkers(concurrency) == concurrency

\* every order in which the elements of the set S can be listed
Orders(S) ==
    {q \in [1..Cardinality(S) -> S] : \A a, b \in 1..Cardinality(S) : q[a] = q[b] => a = b}

\* as_completed forgetting the futures that were done before it was called
AlreadyFinishedOrders_m(S) == {<<>>}

\* as_completed: the futures already done when it is called are handed over
\* in the iteration order of a set, which is any order
AlreadyFinishedOrders(S) == Orders(S)

\* the future of call k (calls are numbered from 0, sequences from 1)
Fut(k) == futures[k + 1]

InFlight == {k \in 0..(Len(futures) - 1) : Fut(k).state = "RUNNING"}

\* report = TestReport(); report.start_time = time.time(); the pool is created
BurstEnter ==
    /\ pc = "enter"
    /\ strategy \in {"burst", "burst-unique"}
    /\ report' = [NewReport EXCEPT !.start_time = now]
    /\ i' = 0
    /\ pc' = IF MaxWorkers(args.concurrency) <= 0 THEN "raised" ELSE "submit"
    /\ UNCHANGED <<config, repeatVars, lookupVars, auxVars, now, strategy, args, ret, issued, sendVars,
                   loop_start, cur, interval, total, rampVars, burstVars>>

\* pool.submit(send_request, config, i[, term=term]) for the next i
Submit ==
    /\ pc = "submit"
    /\ i < args.num_requests
    /\ LET term == IF strategy = "burst" THEN None
                   ELSE TermAt(Terms(args.pool), i)
       IN futures' = Append(futures,
              [state |-> "PENDING", term |-> term, ts |-> 0,
               raised |-> FALSE, result |-> <<>>])
    /\ work_queue' = Append(work_queue, i)
    /\ IF idle_semaphore > 0
         THEN /\ idle_semaphore' = idle_semaphore - 1
              /\ threads' = threads
         ELSE /\ idle_semaphore' = idle_semaphore
              /\ threads' = IF Len(threads) < MaxWorkers(args.concurrency)
                              THEN Append(threads, -1) ELSE threads
    /\ i' = i + 1
    /\ UNCHANGED <<config, repeatVars, lookupVars, auxVars, now, pc, strategy, args, report, ret, issued, sendVars,
                   loop_start, cur, interval, total, rampVars,
                   waiter, pending, yield_list, completed>>

\* worker t takes the next work item and starts send_request
WorkerTake(t) ==
    /\ pc \in {"submit", "collect"}
    /\ threads[t] = -1
    /\ work_queue # <<>>
    /\ LET k == Head(work_queue) IN
         /\ threads' = [threads EXCEPT ![t] = k]
         /\ futures' = [futures EXCEPT ![k + 1].state = "RUNNING", ![k + 1].ts = now]
         /\ issued' = Append(issued,
               [idx |-> k, term |-> Params(config, Fut(k).term).term, ts |-> now])
    /\ work_queue' = Tail(work_queue)
    /\ UNCHANGED <<config, repeatVars, lookupVars, auxVars, now, pc, strategy, args, report, ret, sendVars,
                   paceVars, rampVars, idle_semaphore, waiter, pending,
                   yield_list, completed>>

\* the call of worker t is over: the future is set and its waiters are told
WorkerFinish(t) ==
    /\ pc \in {"submit", "collect"}
    /\ threads[t] # -1
    /\ \E rp \in BurstReplies :
         LET k  == threads[t]
             tr == After(rp, now + CallTicks - Fut(k).ts)
         IN /\ now' = now + CallTicks
            /\ futures' = [futures EXCEPT
                  ![k + 1].state = "FINISHED",
                  ![k + 1].raised = SendRaises(tr),
                  ![k + 1].result = IF SendRaises(tr) THEN <<>>
                      ELSE <<SendRequest(config, Fut(k).term, Fut(k).ts, tr)>>]
            /\ completed' = Append(completed, k)
            /\ waiter' = IF waiter.installed
                           THEN [waiter EXCEPT !.finished_futures = Append(@, k)]
                           ELSE waiter
    /\ threads' = [threads EXCEPT ![t] = -1]
    /\ idle_semaphore' = idle_semaphore + 1
    /\ UNCHANGED <<config, repeatVars, lookupVars, auxVars, pc, strategy, args, report, ret, issued, sendVars,
                   paceVars, rampVars, work_queue, pending, yield_list>>

\* as_completed(futures) is entered once every call is submitted
AsCompletedStart ==
    /\ pc = "submit"
    /\ i >= args.num_requests
    /\ LET all      == 0..(Len(futures) - 1)
           finished == {k \in all : Fut(k).state = "FINISHED"}
       IN /\ yield_list' \in AlreadyFinishedOrders(finished)
          /\ pending' = all \ finished
    /\ waiter' = [installed |-> TRUE, finished_futures |-> <<>>]
    /\ pc' = "collect"
    /\ UNCHANGED <<config, repeatVars, lookupVars, auxVars, now, strategy, args, report, ret, issued, sendVars,
                   paceVars, rampVars, work_queue, threads, idle_semaphore,
                   futures, completed>>

\* as_completed wakes up and takes waiter.finished_futures
AsCompletedWait ==
    /\ pc = "collect"
    /\ yield_list = <<>>
    /\ waiter.finished_futures # <<>>
    /\ yield_list' = waiter.finished_futures
    /\ waiter' = [waiter EXCEPT !.finished_futures = <<>>]
    /\ pending' = pending \ {waiter.finished_futures[k] : k \in 1..Len(waiter.finished_futures)}
    /\ UNCHANGED <<config, repeatVars, lookupVars, auxVars, now, pc, strategy, args, report, ret, issued, sendVars,
                   paceVars, rampVars, work_queue, threads, idle_semaphore,
                   futures, completed>>

\* result = future.result(); report.results.append(result)
Collect ==
    /\ pc = "collect"
    /\ yield_list # <<>>
    /\ LET f == Fut(Head(yield_list)) IN
         IF f.raised
           THEN /\ pc' = "raised"
                /\ report' = report
           ELSE /\ pc' = pc
                /\ report' = [report EXCEPT !.results = Append(@, f.result[1])]
    /\ yield_list' = Tail(yield_list)
    /\ UNCHANGED <<config, repeatVars, lookupVars, auxVars, now, strategy, args, ret, issued, sendVars,
                   paceVars, rampVars, work_queue, threads, idle_semaphore,
                   futures, waiter, pending, completed>>

\* the loop left while futures are still pending
AllYielded_m(yl, pd) == yl = <<>>

\* `for future in as_completed(futures)` is over: nothing is left to yield
\* and no future is pending
AllYielded(yl, pd) == yl = <<>> /\ pd = {}

\* the with block is left; report.end_time = time.time(); return report
BurstExit ==
    /\ pc = "collect"
    /\ AllYielded(yield_list, pending)
    /\ \E dt \in {0, 1} :
         /\ now' = now + dt
         /\ report' = [report EXCEPT !.end_time = now + dt]
    /\ ret' = <<report'>>
    /\ pc' = "done"
    /\ UNCHANGED <<config, repeatVars, lookupVars, auxVars, strategy, args, issued, sendVars, paceVars, rampVars,
                   burstVars>>

NextBurst ==
    \/ BurstEnter
    \/ Submit
    \/ \E t \in 1..Len(threads) : WorkerTake(t)
    \/ \E t \in 1..Len(threads) : WorkerFinish(t)
    \/ AsCompletedStart
    \/ AsCompletedWait
    \/ Collect
    \/ BurstExit

SpecBurst == InitBurst /\ [][NextBurst]_vars

\* the outcome the executor returned for call k
OutcomeOf(k) == Fut(k).result[1]

\* C3: a burst run with valid concurrency returns a Report with exactly
\* total outcomes, one per submitted call, none lost and none duplicated
BurstReportComplete ==
    /\ pc = "raised" => args.concurrency <= 0
    /\ pc = "done" =>
          /\ Len(ret) = 1
          /\ Len(ret[1].results) = args.num_requests
          /\ \E q \in Orders(0..(args.num_requests - 1)) :
                \A p \in 1..args.num_requests : ret[1].results[p] = OutcomeOf(q[p])

\* three calls went through two workers and all three are in the Report
BurstReportComplete_w ==
    /\ pc = "done" /\ args.num_requests = 3 /\ args.concurrency = 2
    /\ Len(ret[1].results) = 3
    /\ \E p \in 1..3 : ret[1].results[p].status_code = 0

\* a busy worker does not move to another call before it is idle again
WorkerOneAtATime ==
    \A t \in 1..Len(threads) :
        (threads[t] # -1 /\ threads'[t] # threads[t]) => threads'[t] = -1

\* C4: during a burst at most concurrency calls are in flight, each worker
\* executes one call at a time and takes the next call only when idle
BoundedInFlight ==
    /\ [](/\ Cardinality(InFlight) <= Max(args.concurrency, 0)
          /\ Len(threads) <= Max(args.concurrency, 0)
          /\ InFlight = {threads[t] : t \in 1..Len(threads)} \ {-1}
          /\ \A t, u \in 1..Len(threads) :
                (t # u /\ threads[t] # -1) => threads[t] # threads[u])
    /\ [][WorkerOneAtATime]_vars

\* every worker is busy while a submitted call waits in the queue
BoundedInFlight_w ==
    /\ args.concurrency = 2 /\ Cardinality(InFlight) = 2 /\ work_queue # <<>>

\* C5: the Report's insertion order is completion order
ReportInCompletionOrder ==
    \A p \in 1..Len(report.results) : report.results[p] = OutcomeOf(completed[p])

---------------------------------------------------------------------------
(* Pacer: run_sustained_test and run_unique_terms_test *)

\* longest duration_secs a paced run is asked for
MaxDuration == 2

\* the rates drawn for rps: 0, 1/2, 1 and 3/2 requests per second
Rates == {0, 1, 2, 3}

PacerArgs ==
    {Args(0, 0, r, d, 0, 0, 0, p) : r \in Rates, d \in 0..MaxDuration, p \in {"small"}}

InitPacer ==
    /\ InitCommon
    /\ pc = "enter"
    /\ strategy \in {"sustained", "unique"}
    /\ args \in PacerArgs
    /\ call = NoSendCall

\* int(x) of the rational x = num/den, rounding up
PyInt_m(num, den) == -((-num) \div den)

\* int(x) of the rational x = num/den: truncation towards zero
PyInt(num, den) == IF num >= 0 THEN num \div den ELSE -((-num) \div den)

\* interval = 1.0 / rps, in ticks, of the rate r/RateDen
IntervalOf(r) == (TicksPerSec * RateDen) \div r

\* sleep_time = max(0, interval - elapsed) without the compensation
SleepTime_m(itv, elapsed) == Max(0, itv - 2 * elapsed)

\* sleep_time = max(0, interval - elapsed)
SleepTime(itv, elapsed) == Max(0, itv - elapsed)

\* report.start_time = time.time(); interval = 1.0 / rps; total = int(rps * duration_secs)
PacerEnter ==
    /\ pc = "enter"
    /\ strategy \in {"sustained", "unique"}
    /\ report' = [NewReport EXCEPT !.start_time = now]
    /\ IF args.rps = 0
         THEN /\ pc' = "raised"
              /\ UNCHANGED <<interval, total>>
         ELSE /\ pc' = "loop"
              /\ interval' = IntervalOf(args.rps)
              /\ total' = PyInt(args.rps * args.duration, RateDen)
    /\ i' = 0
    /\ UNCHANGED <<config, repeatVars, lookupVars, auxVars, now, strategy, args, ret, issued, sendVars,
                   loop_start, cur, rampVars, burstVars>>

\* loop_start = time.perf_counter(); send_request(config, i[, term=term]) is entered
PacerIssue ==
    /\ pc = "loop"
    /\ strategy \in {"sustained", "unique"}
    /\ i < total
    /\ loop_start' = now
    /\ LET term == IF strategy = "sustained" THEN None
                   ELSE TermAt(Terms(args.pool), i)
       IN /\ cur' = [idx |-> i, term |-> term, ts |-> now]
          /\ issued' = Append(issued,
                [idx |-> i, term |-> Params(config, term).term, ts |-> now])
    /\ pc' = "inflight"
    /\ UNCHANGED <<config, repeatVars, lookupVars, auxVars, now, strategy, args, report, ret, sendVars,
                   i, interval, total, rampVars, burstVars>>

\* send_request returns; the result is appended; the loop sleeps
PacerComplete ==
    /\ pc = "inflight"
    /\ strategy \in {"sustained", "unique"}
    /\ \E rp \in RunReplies, lat \in Latencies :
         LET tr      == After(rp, lat)
             elapsed == (now + lat) - loop_start
         IN IF SendRaises(tr)
              THEN /\ pc' = "raised"
                   /\ now' = now + lat
                   /\ UNCHANGED <<report, i, finished_at>>
              ELSE /\ report' = [report EXCEPT !.results =
                                    Append(@, SendRequest(config, cur.term, cur.ts, tr))]
                   /\ finished_at' = Append(finished_at, now + lat)
                   /\ now' = now + lat + SleepTime(interval, elapsed)
                   /\ i' = i + 1
                   /\ pc' = "loop"
    /\ UNCHANGED <<config, repeatVars, lookupVars, same_results, unique_results,
                   same_limited, unique_limited, conclusion, terms, key, stats,
                   summary, strategy, args, ret, issued,
                   sendVars, loop_start, cur, interval, total, rampVars, burstVars>>

\* report.end_time = time.time(); return report
PacerExit ==
    /\ pc = "loop"
    /\ strategy \in {"sustained", "unique"}
    /\ i >= total
    /\ report' = [report EXCEPT !.end_time = now]
    /\ ret' = <<report'>>
    /\ pc' = "done"
    /\ UNCHANGED <<config, repeatVars, lookupVars, auxVars, now, strategy, args, issued, sendVars, paceVars,
                   rampVars, burstVars>>

NextPacer == PacerEnter \/ PacerIssue \/ PacerComplete \/ PacerExit

SpecPacer == InitPacer /\ [][NextPacer]_vars

\* floor(num/den) for den > 0
Floor(num, den) == num \div den

\* C6: a Pacer run at rate R for duration D issues exactly floor(R*D)
\* calls and records exactly that many outcomes
PacerIssuesFloorRD ==
    /\ Len(issued) <= Floor(args.rps * args.duration, RateDen)
    /\ pc = "raised" => args.rps = 0
    /\ pc = "done" =>
          /\ Len(issued) = Floor(args.rps * args.duration, RateDen)
          /\ Len(ret[1].results) = Floor(args.rps * args.duration, RateDen)

\* R*D = 3/2 * 1 is not whole, one call was issued, it failed after a long
\* latency, and the run returned
PacerIssuesFloorRD_w ==
    /\ pc = "done" /\ args.rps = 3 /\ args.duration = 1
    /\ Len(issued) = 1 /\ Len(ret[1].results) = 1
    /\ ret[1].results[1].status_code = 0
    /\ ret[1].end_time - ret[1].start_time = LongLatency

\* every call of the run so far took at most 1/R
LatenciesWithinInterval ==
    \A k \in 1..Len(issued) :
        (IF k < Len(issued) THEN issued[k + 1].ts ELSE now) - issued[k].ts <= interval

\* duration of the returned Report, in ticks
Duration(r) == r.end_time - r.start_time

\* C7 as stated: with every latency at most 1/R the observed duration of
\* the run is at least D
DurationAtLeastD ==
    (pc = "done" /\ LatenciesWithinInterval) =>
        Duration(ret[1]) >= args.duration * TicksPerSec

\* C7 amended: with every latency at most 1/R the observed duration is at
\* least floor(R*D)/R, which is D when R*D is whole
DurationAtLeastCallsOverR ==
    (pc = "done" /\ LatenciesWithinInterval) =>
        /\ Duration(ret[1]) >= Floor(args.rps * args.duration, RateDen) * interval
        /\ (args.rps * args.duration) % RateDen = 0 =>
              Duration(ret[1]) >= args.duration * TicksPerSec

\* R = 1/2, D = 2: R*D is whole, the single call took less than 1/R and the
\* run lasted D
DurationAtLeastCallsOverR_w ==
    /\ pc = "done" /\ args.rps = 1 /\ args.duration = 2
    /\ Len(ret[1].results) = 1
    /\ ret[1].results[1].latency_ms = LatencyMs(ShortLatency)
    /\ Duration(ret[1]) = args.duration * TicksPerSec

---------------------------------------------------------------------------
(* Ramp controller: run_ramp_test *)

\* most calls a ramp run drawn may issue
MaxRampRequests == 6

\* latencies the calls of a ramp draw
RampLatencies == {ShortLatency}

\* status_code in (429, 403), also counting transport failures
Limited_m(status_code) == status_code \in {429, 403, 0}

\* status_code in (429, 403)
Limited(status_code) == status_code \in {429, 403}

\* limit_pct > 20 turned into limit_pct >= 20
LimitExceeded_m(limited, step_requests) ==
    step_requests # 0 /\ limited * 100 >= LimitPct * step_requests

\* limit_pct = limited_in_step / step_requests * 100 if step_requests else 0;
\* limit_pct > 20
LimitExceeded(limited, step_requests) ==
    step_requests # 0 /\ limited * 100 > LimitPct * step_requests

\* the rate of the "Rate limit hit" line taken after current_rps += step_size
MarkerRate_m(rps, step_size) == rps + step_size

\* the rate the "Rate limit hit at ~{current_rps}" line prints
MarkerRate(rps, step_size) == rps

\* while current_rps < max_rps and not rate_limit_detected
WhileCond_m(rps, max_rps, detected) == rps < max_rps /\ ~detected

\* while current_rps <= max_rps and not rate_limit_detected
WhileCond(rps, max_rps, detected) == rps <= max_rps /\ ~detected

\* calls the ramp (step_size ss, max_rps m, step_duration sd) issues when no
\* step is limited
RECURSIVE RampRequests(_, _, _, _)
RampRequests(ss, m, sd, k) ==
    IF ss <= 0 \/ k * ss > m THEN 0
    ELSE (k * ss * sd) \div RateDen + RampRequests(ss, m, sd, k + 1)

RampArgs ==
    {Args(0, 0, 0, 0, m, sd, ss, "large") :
        <<ss, m, sd>> \in {x \in (0..3) \X (0..6) \X {0, 1, 2, 5} :
                              RampRequests(x[1], x[2], x[3], 1) <= MaxRampRequests}}

InitRamp ==
    /\ InitCommon
    /\ pc = "enter"
    /\ strategy = "ramp"
    /\ args \in RampArgs
    /\ call = NoSendCall

\* report.start_time = time.time(); current_rps = step_size;
\* rate_limit_detected = False
RampEnter ==
    /\ pc = "enter"
    /\ strategy = "ramp"
    /\ report' = [NewReport EXCEPT !.start_time = now]
    /\ current_rps' = args.step_size
    /\ rate_limit_detected' = FALSE
    /\ pc' = "while"
    /\ UNCHANGED <<config, repeatVars, lookupVars, auxVars, now, strategy, args, ret, issued, sendVars, paceVars,
                   limited_in_step, steps, marker, burstVars>>

\* a step that starts a fresh list of results instead of adding to the report
RampStep_m ==
    /\ pc = "while"
    /\ WhileCond(current_rps, args.max_rps, rate_limit_detected)
    /\ pc' = "loop"
    /\ current_rps # 0
    /\ interval' = IntervalOf(current_rps)
    /\ total' = PyInt(current_rps * args.step_duration, RateDen)
    /\ limited_in_step' = 0
    /\ i' = 0
    /\ report' = [report EXCEPT !.results = <<>>]
    /\ steps' = Append(steps,
          [rate |-> current_rps, interval |-> interval',
           first |-> 1, requests |-> total', ended |-> FALSE])
    /\ UNCHANGED <<config, repeatVars, lookupVars, auxVars, now, strategy, args, ret, issued, sendVars,
                   loop_start, cur, current_rps, rate_limit_detected, marker,
                   burstVars>>

\* the while condition holds: a step at current_rps begins
RampStep ==
    /\ pc = "while"
    /\ WhileCond(current_rps, args.max_rps, rate_limit_detected)
    /\ IF current_rps = 0
         THEN /\ pc' = "raised"
              /\ UNCHANGED <<interval, total, limited_in_step, i, steps>>
         ELSE /\ pc' = "loop"
              /\ interval' = IntervalOf(current_rps)
              /\ total' = PyInt(current_rps * args.step_duration, RateDen)
              /\ limited_in_step' = 0
              /\ i' = 0
              /\ steps' = Append(steps,
                    [rate |-> current_rps, interval |-> interval',
                     first |-> Len(report.results) + 1, requests |-> total',
                     ended |-> FALSE])
    /\ UNCHANGED <<config, repeatVars, lookupVars, auxVars, now, strategy, args, report, ret, issued, sendVars,
                   loop_start, cur, current_rps, rate_limit_detected, marker,
                   burstVars>>

\* loop_start = time.perf_counter(); send_request(config, i) is entered
RampIssue ==
    /\ pc = "loop"
    /\ strategy = "ramp"
    /\ i < total
    /\ loop_start' = now
    /\ cur' = [idx |-> i, term |-> None, ts |-> now]
    /\ issued' = Append(issued,
          [idx |-> i, term |-> Params(config, None).term, ts |-> now])
    /\ pc' = "inflight"
    /\ UNCHANGED <<config, repeatVars, lookupVars, auxVars, now, strategy, args, report, ret, sendVars,
                   i, interval, total, rampVars, burstVars>>

\* send_request returns; the result is appended and counted; the loop sleeps
RampComplete ==
    /\ pc = "inflight"
    /\ strategy = "ramp"
    /\ \E rp \in RunReplies, lat \in RampLatencies :
         LET tr      == After(rp, lat)
             result  == SendRequest(config, cur.term, cur.ts, tr)
             elapsed == (now + lat) - loop_start
         IN IF SendRaises(tr)
              THEN /\ pc' = "raised"
                   /\ now' = now + lat
                   /\ UNCHANGED <<report, i, limited_in_step, finished_at>>
              ELSE /\ report' = [report EXCEPT !.results = Append(@, result)]
                   /\ finished_at' = Append(finished_at, now + lat)
                   /\ limited_in_step' = IF Limited(result.status_code)
                                           THEN limited_in_step + 1
                                           ELSE limited_in_step
                   /\ now' = now + lat + SleepTime(interval, elapsed)
                   /\ i' = i + 1
                   /\ pc' = "loop"
    /\ UNCHANGED <<config, repeatVars, lookupVars, same_results, unique_results,
                   same_limited, unique_limited, conclusion, terms, key, stats,
                   summary, strategy, args, ret, issued,
                   sendVars, loop_start, cur, interval, total,
                   current_rps, rate_limit_detected, steps, marker, burstVars>>

\* the rate raised by two steps at once
NextRate_m(rps, step_size) == rps + 2 * step_size

\* current_rps += step_size
NextRate(rps, step_size) == rps + step_size

\* the step is over: limit_pct is computed and compared, current_rps += step_size
RampStepEnd ==
    /\ pc = "loop"
    /\ strategy = "ramp"
    /\ i >= total
    /\ IF LimitExceeded(limited_in_step, total)
         THEN /\ marker' = Append(marker, MarkerRate(current_rps, args.step_size))
              /\ rate_limit_detected' = TRUE
         ELSE UNCHANGED <<marker, rate_limit_detected>>
    /\ current_rps' = NextRate(current_rps, args.step_size)
    /\ steps' = [steps EXCEPT ![Len(steps)].ended = TRUE]
    /\ pc' = "while"
    /\ UNCHANGED <<config, repeatVars, lookupVars, auxVars, now, strategy, args, report, ret, issued, sendVars,
                   paceVars, limited_in_step, burstVars>>

\* the while condition fails: report.end_time = time.time(); return report
RampExit ==
    /\ pc = "while"
    /\ ~WhileCond(current_rps, args.max_rps, rate_limit_detected)
    /\ report' = [report EXCEPT !.end_time = now]
    /\ ret' = <<report'>>
    /\ pc' = "done"
    /\ UNCHANGED <<config, repeatVars, lookupVars, auxVars, now, strategy, args, issued, sendVars, paceVars,
                   rampVars, burstVars>>

NextRamp == RampEnter \/ RampStep \/ RampIssue \/ RampComplete \/ RampStepEnd \/ RampExit

SpecRamp == InitRamp /\ [][NextRamp]_vars

\* calls of step st that came back rate-limited (429 or 403), counted in the
\* results rs
LimitedInStep(st, rs) ==
    Cardinality({q \in st.first..(st.first + st.requests - 1) :
                    q <= Len(rs) /\ rs[q].status_code \in {429, 403}})

\* more than 20% of the calls of step st were rate-limited
StepExceeded(st, rs) == LimitedInStep(st, rs) * 100 > 20 * st.requests

\* terminal states of the ramp
Detected == pc = "done" /\ rate_limit_detected

Exhausted == pc = "done" /\ ~rate_limit_detected /\ current_rps > args.max_rps

\* C8: when every step's limited fraction stays at or below 20%, the steps
\* executed are those at stepSize, 2*stepSize, ... up to the largest multiple
\* not exceeding maxRate, in that order, and the run ends Exhausted
RampRunsAllSteps ==
    (pc = "done" /\ \A k \in 1..Len(steps) : ~StepExceeded(steps[k], report.results)) =>
        /\ Len(steps) = Floor(args.max_rps, args.step_size)
        /\ \A k \in 1..Len(steps) :
              /\ steps[k].rate = k * args.step_size
              /\ steps[k].requests = Floor(steps[k].rate * args.step_duration, RateDen)
              /\ steps[k].ended
        /\ Len(report.results) = RampRequests(args.step_size, args.max_rps, args.step_duration, 1)
        /\ Exhausted

\* a step of five calls with exactly one of them limited (20%) was followed
\* by the end of the run in Exhausted
RampRunsAllSteps_w ==
    /\ Exhausted /\ Len(steps) >= 1
    /\ steps[Len(steps)].requests = 5
    /\ LimitedInStep(steps[Len(steps)], report.results) = 1

\* no call is issued once a limit was detected
NoIssueAfterDetection == rate_limit_detected => issued' = issued

\* C9: as soon as a step ends with more than 20% of its calls limited the
\* run stops, no call of a later step is issued, and the rate reported is the
\* rate at which that step's calls were paced
RampStopsAtDetection ==
    /\ [](\A k \in 1..Len(steps) :
             (steps[k].ended /\ StepExceeded(steps[k], report.results)) =>
                 /\ k = Len(steps)
                 /\ pc \in {"while", "done"}
                 /\ rate_limit_detected
                 /\ Len(issued) = steps[k].first + steps[k].requests - 1
                 /\ Len(marker) = 1
                 /\ IntervalOf(marker[1]) = steps[k].interval)
    /\ [][NoIssueAfterDetection]_vars

\* the first step passed, the second one was limited and the run returned
\* although a third step would have fitted below max_rps
RampStopsAtDetection_w ==
    /\ Detected /\ Len(steps) = 2
    /\ ~StepExceeded(steps[1], report.results)
    /\ StepExceeded(steps[2], report.results)
    /\ current_rps <= args.max_rps
    /\ marker = <<steps[2].rate>>

\* what a caller that knows the arguments a reads off the results rs: the
\* terminal state of the ramp that produced them
RECURSIVE Replay(_, _, _, _)
Replay(a, rs, k, off) ==
    LET rate == k * a.step_size
        n    == Floor(rate * a.step_duration, RateDen)
        lim  == Cardinality({q \in (off + 1)..(off + n) :
                                q <= Len(rs) /\ rs[q].status_code \in {429, 403}})
    IN IF rate > a.max_rps THEN
           IF off = Len(rs) THEN "Exhausted" ELSE "Unknown"
       ELSE IF off + n > Len(rs) THEN "Unknown"
       ELSE IF lim * 100 > 20 * n THEN
           IF off + n = Len(rs) THEN "Detected" ELSE "Unknown"
       ELSE Replay(a, rs, k + 1, off + n)

\* C10: a ramp run ends in exactly one of Detected (some step exceeded the
\* threshold) and Exhausted (current rate above maxRate, no step exceeded
\* it), and the returned Report tells the caller which
RampTerminalStates ==
    pc = "done" =>
        /\ Detected # Exhausted
        /\ Detected <=> \E k \in 1..Len(steps) : StepExceeded(steps[k], ret[1].results)
        /\ Replay(args, ret[1].results, 1, 0) = IF Detected THEN "Detected" ELSE "Exhausted"

\* the detecting step was the last one at or below max_rps
RampTerminalStates_w ==
    /\ Detected /\ Len(steps) >= 2
    /\ steps[Len(steps)].rate <= args.max_rps
    /\ steps[Len(steps)].rate + args.step_size > args.max_rps
    /\ Replay(args, ret[1].results, 1, 0) = "Detected"

\* sum over the steps st[k..] of floor(rate * step_duration)
RECURSIVE StepCalls(_, _, _)
StepCalls(st, sd, k) ==
    IF k > Len(st) THEN 0
    ELSE Floor(st[k].rate * sd, RateDen) + StepCalls(st, sd, k + 1)

\* C11: whichever terminal state a ramp run reaches, its Report holds the
\* outcomes of every call of every executed step, in issue order: its length
\* is the sum over the executed steps of floor(rate * stepDuration)
RampReportCumulative ==
    pc = "done" =>
        /\ Len(ret[1].results) = StepCalls(steps, args.step_duration, 1)
        /\ Len(ret[1].results) = Len(issued)
        /\ \A q \in 1..Len(issued) : ret[1].results[q].timestamp = issued[q].ts

\* a limit was detected in the third step and the calls of all three steps
\* are in the Report
RampReportCumulative_w ==
    /\ Detected /\ Len(steps) = 3
    /\ steps[1].requests > 0 /\ steps[2].requests > 0 /\ steps[3].requests > 0
    /\ Len(ret[1].results) = steps[1].requests + steps[2].requests + steps[3].requests

---------------------------------------------------------------------------
(* Comparison analyzer: the conclusion of run_same_vs_unique_test *)

\* largest count the conclusion is computed for on its own
MaxCounts == 10

\* the conclusion with same_limited // 2 for same_limited * 0.5
Classify_m(same, unique) ==
    IF unique = 0 /\ same > 0 THEN <<"PerKeyLimit">>
    ELSE IF unique > 0 /\ same > 0 THEN
        IF unique < same \div 2 THEN <<"HybridLimit">> ELSE <<"PerClientLimit">>
    ELSE IF unique = 0 /\ same = 0 THEN <<"Inconclusive">>
    ELSE <<>>

\* the if/elif chain that prints the CONCLUSION line:
\* unique_limited < same_limited * 0.5 is 2 * unique_limited < same_limited
Classify(same, unique) ==
    IF unique = 0 /\ same > 0 THEN <<"PerKeyLimit">>
    ELSE IF unique > 0 /\ same > 0 THEN
        IF 2 * unique < same THEN <<"HybridLimit">> ELSE <<"PerClientLimit">>
    ELSE IF unique = 0 /\ same = 0 THEN <<"Inconclusive">>
    ELSE <<>>

InitClassify ==
    /\ InitCommon
    /\ pc = "classify"
    /\ strategy = "classify"
    /\ args = NoArgs
    /\ call = NoSendCall

\* the two phases ended with the counts s and u; the comparison is printed
ClassifyCounts ==
    /\ pc = "classify"
    /\ \E s \in 0..MaxCounts, u \in 0..MaxCounts :
         /\ same_limited' = s
         /\ unique_limited' = u
         /\ conclusion' = Classify(s, u)
    /\ pc' = "classified"
    /\ UNCHANGED <<config, repeatVars, lookupVars, now, strategy, args, report, ret, issued, sendVars,
                   paceVars, rampVars, burstVars, same_results, unique_results,
                   terms, key, stats, summary, finished_at>>

NextClassify == ClassifyCounts

SpecClassify == InitClassify /\ [][NextClassify]_vars

\* C12: the comparison classifies uniqueLimited = 0 and sameLimited > 0 as
\* PerKeyLimit; both > 0 and uniqueLimited < sameLimited/2 as HybridLimit;
\* both > 0 and uniqueLimited >= sameLimited/2 as PerClientLimit; both = 0
\* as Inconclusive
ClassificationRule ==
    pc = "classified" =>
        /\ (unique_limited = 0 /\ same_limited > 0) => conclusion = <<"PerKeyLimit">>
        /\ (unique_limited > 0 /\ same_limited > 0 /\ 2 * unique_limited < same_limited)
              => conclusion = <<"HybridLimit">>
        /\ (unique_limited > 0 /\ same_limited > 0 /\ 2 * unique_limited >= same_limited)
              => conclusion = <<"PerClientLimit">>
        /\ (unique_limited = 0 /\ same_limited = 0) => conclusion = <<"Inconclusive">>

\* sameLimited = 9 and uniqueLimited = 4, just below half, gave HybridLimit
ClassificationRule_w ==
    /\ pc = "classified" /\ same_limited = 9 /\ unique_limited = 4
    /\ conclusion = <<"HybridLimit">>

---------------------------------------------------------------------------
(* Comparison analyzer: run_same_vs_unique_test *)

\* most calls per phase a compare run is asked for
MaxNumEach == 2

\* time.sleep(3) between the phases, in seconds
CooldownSecs == 3

\* same_term = "bill tracker"
SameTerm == "bill tracker"

\* latencies the calls of a compare run draw
CompareLatencies == {ShortLatency, LongLatency}

\* the rates drawn for rps: 0, 1 and 2 requests per second
CompareRates == {0, 2, 4}

CompareArgs ==
    {Args(n, 0, r, 0, 0, 0, 0, "large") : n \in 0..MaxNumEach, r \in CompareRates}

InitCompare ==
    /\ InitCommon
    /\ pc = "enter"
    /\ strategy = "compare"
    /\ args \in CompareArgs
    /\ call = NoSendCall

\* the pause between the phases left out
Cooldown_m(t) == t

\* time.sleep(3) entered at time t returns at
Cooldown(t) == t + CooldownSecs * TicksPerSec

\* sum(1 for r in results if r.status_code in (429, 403))
PhaseLimited(rs) ==
    Cardinality({q \in 1..Len(rs) : rs[q].status_code \in {429, 403}})

\* report.results with the phases in the wrong order
Merge_m(same, unique) == unique \o same

\* report.results = same_results + unique_results
Merge(same, unique) == same \o unique

\* interval = 1.0 / rps
CompareEnter ==
    /\ pc = "enter"
    /\ strategy = "compare"
    /\ IF args.rps = 0
         THEN /\ pc' = "raised"
              /\ interval' = interval
         ELSE /\ pc' = "phase1"
              /\ interval' = IntervalOf(args.rps)
    /\ i' = 0
    /\ total' = args.num_requests
    /\ UNCHANGED <<config, repeatVars, lookupVars, auxVars, now, strategy, args, report, ret, issued,
                   sendVars, loop_start, cur, rampVars, burstVars>>

\* loop_start = time.perf_counter(); send_request(config, i, term=...) is
\* entered, with same_term in phase 1 and terms[i % len(terms)] in phase 2
CompareIssue ==
    /\ pc \in {"phase1", "phase2"}
    /\ i < total
    /\ loop_start' = now
    /\ LET term == IF pc = "phase1" THEN SameTerm ELSE TermAt(terms, i)
       IN /\ cur' = [idx |-> i, term |-> term, ts |-> now]
          /\ issued' = Append(issued,
                [idx |-> i, term |-> Params(config, term).term, ts |-> now])
    /\ pc' = IF pc = "phase1" THEN "inflight1" ELSE "inflight2"
    /\ UNCHANGED <<config, repeatVars, lookupVars, auxVars, now, strategy, args, report, ret, sendVars,
                   i, interval, total, rampVars, burstVars>>

\* send_request returns; the result is appended to the list of the phase;
\* the loop sleeps
CompareComplete ==
    /\ pc \in {"inflight1", "inflight2"}
    /\ \E rp \in RunReplies, lat \in CompareLatencies :
         LET tr      == After(rp, lat)
             result  == SendRequest(config, cur.term, cur.ts, tr)
             elapsed == (now + lat) - loop_start
         IN IF SendRaises(tr)
              THEN /\ pc' = "raised"
                   /\ now' = now + lat
                   /\ UNCHANGED <<same_results, unique_results, i, finished_at>>
              ELSE /\ same_results' = IF pc = "inflight1"
                                        THEN Append(same_results, result)
                                        ELSE same_results
                   /\ unique_results' = IF pc = "inflight2"
                                          THEN Append(unique_results, result)
                                          ELSE unique_results
                   /\ finished_at' = Append(finished_at, now + lat)
                   /\ now' = now + lat + SleepTime(interval, elapsed)
                   /\ i' = i + 1
                   /\ pc' = IF pc = "inflight1" THEN "phase1" ELSE "phase2"
    /\ UNCHANGED <<config, repeatVars, lookupVars, strategy, args, report, ret, issued, sendVars,
                   loop_start, cur, interval, total, rampVars, burstVars,
                   same_limited, unique_limited, conclusion, terms, key, stats,
                   summary>>

\* phase 1 is over: same_limited is counted, time.sleep(3),
\* terms = TERM_POOLS["large"]
ComparePause ==
    /\ pc = "phase1"
    /\ i >= total
    /\ same_limited' = PhaseLimited(same_results)
    /\ now' = Cooldown(now)
    /\ terms' = TERM_POOLS["large"]
    /\ i' = 0
    /\ pc' = "phase2"
    /\ UNCHANGED <<config, repeatVars, lookupVars, strategy, args, report, ret, issued, sendVars,
                   loop_start, cur, interval, total, rampVars, burstVars,
                   same_results, unique_results, unique_limited, conclusion,
                   key, stats, summary, finished_at>>

\* phase 2 is over: unique_limited is counted, the comparison table and the
\* conclusion are printed, the merged report is built and returned
CompareFinish ==
    /\ pc = "phase2"
    /\ i >= total
    /\ unique_limited' = PhaseLimited(unique_results)
    /\ IF args.num_requests = 0
         THEN /\ pc' = "raised"
              /\ UNCHANGED <<conclusion, report, ret>>
         ELSE /\ conclusion' = Classify(same_limited, unique_limited')
              /\ report' = [results |-> Merge(same_results, unique_results),
                            start_time |-> IF same_results # <<>>
                                             THEN same_results[1].timestamp ELSE 0,
                            end_time |-> now]
              /\ ret' = <<report'>>
              /\ pc' = "done"
    /\ UNCHANGED <<config, repeatVars, lookupVars, now, strategy, args, issued, sendVars, paceVars,
                   rampVars, burstVars, same_results, unique_results,
                   same_limited, terms, key, stats, summary, finished_at>>

NextCompare ==
    CompareEnter \/ CompareIssue \/ CompareComplete \/ ComparePause \/ CompareFinish

SpecCompare == InitCompare /\ [][NextCompare]_vars

\* C13: in a compare run all numEach fixed-key calls of phase 1 are issued
\* and completed first, then the 3-second cooldown elapses, and only then is
\* the first rotating-key call of phase 2 issued
CooldownBetweenPhases ==
    \A q \in 1..Len(issued) :
        IF q <= args.num_requests
          THEN issued[q].term = "bill tracker"
          ELSE /\ Len(same_results) = args.num_requests
               /\ Len(finished_at) >= args.num_requests
               /\ issued[q].ts >= finished_at[args.num_requests] + 3 * TicksPerSec
               /\ issued[q].term =
                     TERM_POOLS["large"][((q - args.num_requests - 1) % Len(TERM_POOLS["large"])) + 1]

\* the last call of phase 1 took longer than the interval, and the first call
\* of phase 2 was issued exactly three seconds after it returned
CooldownBetweenPhases_w ==
    /\ args.num_requests = 2 /\ Len(issued) = 3
    /\ finished_at[2] - issued[2].ts = LongLatency
    /\ issued[3].ts = finished_at[2] + 3 * TicksPerSec

\* rate-limited outcomes among rs[a..b]
LimitedBetween(rs, a, b) ==
    Cardinality({q \in a..b : rs[q].status_code \in {429, 403}})

\* C14: the Report a compare run returns is the phase-1 outcomes followed by
\* the phase-2 outcomes, and the classification is computed from the two
\* per-phase limited counts, whose sum is the merged Report's limited count
CompareReportMerged ==
    pc = "done" =>
        LET n  == args.num_requests
            rs == ret[1].results
        IN /\ Len(rs) = 2 * n
           /\ \A q \in 1..n : rs[q] = same_results[q] /\ rs[n + q] = unique_results[q]
           /\ \A q \in 1..(2 * n) : rs[q].timestamp = issued[q].ts
           /\ same_limited = LimitedBetween(rs, 1, n)
           /\ unique_limited = LimitedBetween(rs, n + 1, 2 * n)
           /\ conclusion = Classify(LimitedBetween(rs, 1, n), LimitedBetween(rs, n + 1, 2 * n))
           /\ same_limited + unique_limited = LimitedBetween(rs, 1, 2 * n)

\* phase 1 was limited twice and phase 2 never: PerKeyLimit, and the merged
\* Report counts two limited outcomes
CompareReportMerged_w ==
    /\ pc = "done" /\ args.num_requests = 2
    /\ same_limited = 2 /\ unique_limited = 0
    /\ conclusion = <<"PerKeyLimit">>
    /\ LimitedBetween(ret[1].results, 1, 4) = 2

---------------------------------------------------------------------------
(* Per-key breakdown: TestReport.per_term_stats *)

\* most outcomes of a report whose breakdown is computed
MaxOutcomes == 5

\* most outcomes of a report that is reordered
MaxShuffled == 3

\* the keys of the outcomes
StatKeys == {"a", "b"}

\* the statuses of the outcomes
StatStatuses == {200, 204, 403, 429, 500}

\* lambda: {"success": 0, "limited": 0, "total": 0}
ZeroStats == [success |-> 0, limited |-> 0, total |-> 0]

\* the entry of a key started afresh at every outcome
EntryOf_m(by_term, t) == ZeroStats

\* by_term[t] of the defaultdict
EntryOf(by_term, t) == IF t \in DOMAIN by_term THEN by_term[t] ELSE ZeroStats

\* only status 200 counted as a success
Tally_m(e, status) ==
    LET e1 == [e EXCEPT !.total = @ + 1]
    IN IF status = 200 THEN [e1 EXCEPT !.success = @ + 1]
       ELSE IF status \in {429, 403} THEN [e1 EXCEPT !.limited = @ + 1]
       ELSE e1

\* the body of the loop of per_term_stats on the entry e of r.term
Tally(e, status) ==
    LET e1 == [e EXCEPT !.total = @ + 1]
    IN IF 200 <= status /\ status < 300 THEN [e1 EXCEPT !.success = @ + 1]
       ELSE IF status \in {429, 403} THEN [e1 EXCEPT !.limited = @ + 1]
       ELSE e1

\* for r in self.results, from the k-th outcome on
RECURSIVE StatsFrom(_, _, _)
StatsFrom(rs, k, by_term) ==
    IF k > Len(rs) THEN by_term
    ELSE LET r == rs[k]
             e == Tally(EntryOf(by_term, r.term), r.status_code)
         IN StatsFrom(rs, k + 1,
                [t \in DOMAIN by_term \cup {r.term} |->
                    IF t = r.term THEN e ELSE by_term[t]])

\* report.per_term_stats()
PerTermStats(rs) == StatsFrom(rs, 1, [t \in {} |-> ZeroStats])

InitStats ==
    /\ InitCommon
    /\ pc = "build"
    /\ strategy = "stats"
    /\ args = NoArgs
    /\ call = NoSendCall

InitShuffle ==
    /\ InitCommon
    /\ pc = "build"
    /\ strategy = "shuffle"
    /\ args = NoArgs
    /\ call = NoSendCall

\* report.results.append(result) of a run, for an outcome with a key and a
\* status
StatsAppend ==
    /\ pc = "build"
    /\ Len(report.results) < (IF strategy = "stats" THEN MaxOutcomes ELSE MaxShuffled)
    /\ \E t \in StatKeys, st \in StatStatuses :
         report' = [report EXCEPT !.results =
            Append(@, SendRequest(config, t, now, After(Response(st, 1), ShortLatency)))]
    /\ now' = now + CallTicks
    /\ UNCHANGED <<config, repeatVars, lookupVars, auxVars, pc, strategy, args, ret, issued, sendVars,
                   paceVars, rampVars, burstVars>>

\* per_term = report.per_term_stats()
StatsCompute ==
    /\ pc = "build"
    /\ stats' = PerTermStats(report.results)
    /\ pc' = "counted"
    /\ UNCHANGED <<config, repeatVars, lookupVars, now, strategy, args, report, ret, issued, sendVars,
                   paceVars, rampVars, burstVars, same_results, unique_results,
                   same_limited, unique_limited, conclusion, terms, key,
                   summary, finished_at>>

\* a second report with the same outcomes, two neighbours exchanged
StatsReorder ==
    /\ pc = "counted"
    /\ strategy = "shuffle"
    /\ \E x \in 1..(Len(report.results) - 1) :
         report' = [report EXCEPT !.results =
            [@ EXCEPT ![x] = report.results[x + 1], ![x + 1] = report.results[x]]]
    /\ UNCHANGED <<config, repeatVars, lookupVars, auxVars, now, pc, strategy, args, ret, issued,
                   sendVars, paceVars, rampVars, burstVars>>

NextStats == StatsAppend \/ StatsCompute

SpecStats == InitStats /\ [][NextStats]_vars

NextShuffle == StatsAppend \/ StatsCompute \/ StatsReorder

SpecShuffle == InitShuffle /\ [][NextShuffle]_vars

\* number of the outcomes of rs with key t whose status is in S
CountOf(rs, t, S) ==
    Cardinality({q \in 1..Len(rs) : rs[q].term = t /\ rs[q].status_code \in S})

\* C15: per_term_stats has an entry for exactly the keys occurring in the
\* Report, with total = the outcomes with that key, success = those with a
\* 2xx status and limited = those with status 429 or 403
PerTermStatsCounts ==
    pc = "counted" =>
        LET rs == report.results
        IN /\ DOMAIN stats = {rs[q].term : q \in 1..Len(rs)}
           /\ \A t \in DOMAIN stats :
                /\ stats[t].total = CountOf(rs, t, 0..599)
                /\ stats[t].success = CountOf(rs, t, 200..299)
                /\ stats[t].limited = CountOf(rs, t, {429, 403})

\* three outcomes for "a" (two successes, one of them a 204, one limited) and
\* two successes for "b" give a: 3/2/1 and b: 2/2/0
PerTermStatsCounts_w ==
    /\ pc = "counted"
    /\ Len(report.results) = 5
    /\ \E q \in 1..5 : report.results[q].status_code = 204
    /\ stats = ("a" :> [success |-> 2, limited |-> 1, total |-> 3])
               @@ ("b" :> [success |-> 2, limited |-> 0, total |-> 2])

\* C16: the per-key breakdown depends only on the multiset of the outcomes:
\* every Report reached by reordering the outcomes of a Report has the
\* breakdown of that Report
PerTermStatsOrderFree ==
    pc = "counted" => PerTermStats(report.results) = stats

\* the outcomes of a Report with two keys put in the reverse order
PerTermStatsOrderFree_w ==
    /\ pc = "counted"
    /\ Len(report.results) = 3
    /\ report.results[1].timestamp > report.results[2].timestamp
    /\ report.results[2].timestamp > report.results[3].timestamp
    /\ report.results[1].term = "b" /\ report.results[3].term = "a"
    /\ report.results[2].term = "a"
    /\ stats["a"].total = 2 /\ stats["a"].limited = 1 /\ stats["a"].success = 1

---------------------------------------------------------------------------
(* Key rotation: terms[i % len(terms)] in run_unique_terms_test and
   run_burst_unique_test *)

\* most indices a rotation is asked for
MaxIndex == 9

KeyArgs ==
    {Args(n, 0, 0, 0, 0, 0, 0, p) : n \in 0..MaxIndex, p \in DOMAIN TERM_POOLS}

InitKeys ==
    /\ InitCommon
    /\ pc = "pool"
    /\ strategy = "keys"
    /\ args \in KeyArgs
    /\ call = NoSendCall

\* terms = TERM_POOLS.get(pool_name, TERM_POOLS["large"])
KeyPool ==
    /\ pc = "pool"
    /\ terms' = Terms(args.pool)
    /\ i' = 0
    /\ pc' = "rotate"
    /\ UNCHANGED <<config, repeatVars, lookupVars, now, strategy, args, report, ret, issued, sendVars,
                   loop_start, cur, interval, total, rampVars, burstVars,
                   same_results, unique_results, same_limited, unique_limited,
                   conclusion, key, stats, summary, finished_at>>

\* for i in range(n): term = terms[i % len(terms)]
KeyNext ==
    /\ pc = "rotate"
    /\ i < args.num_requests
    /\ key' = <<TermAt(terms, i)>>
    /\ issued' = Append(issued, [idx |-> i, term |-> TermAt(terms, i), ts |-> now])
    /\ i' = i + 1
    /\ UNCHANGED <<config, repeatVars, lookupVars, now, pc, strategy, args, report, ret, sendVars,
                   loop_start, cur, interval, total, rampVars, burstVars,
                   same_results, unique_results, same_limited, unique_limited,
                   conclusion, terms, stats, summary, finished_at>>

NextKeys == KeyPool \/ KeyNext

SpecKeys == InitKeys /\ [][NextKeys]_vars

\* C17: key selection is the pure function keys[index mod len(keys)]: the key
\* chosen for index i is the key chosen for index i + len(pool), and choosing
\* keys leaves the pool as it was
KeySelectionPeriodic ==
    pc = "rotate" =>
        /\ terms = TERM_POOLS[args.pool]
        /\ \A q \in 1..Len(issued) :
              issued[q].term = TERM_POOLS[args.pool][(issued[q].idx % Len(TERM_POOLS[args.pool])) + 1]
        /\ \A q, r \in 1..Len(issued) :
              issued[r].idx = issued[q].idx + Len(TERM_POOLS[args.pool])
                  => issued[r].term = issued[q].term

\* the large pool gone through twice: index 8 chose the key of indices 0 and 4
KeySelectionPeriodic_w ==
    /\ pc = "rotate" /\ args.pool = "large" /\ Len(issued) = 9
    /\ issued[9].idx = 8 /\ issued[9].term = issued[1].term
    /\ issued[5].term = issued[1].term
    /\ issued[2].term # issued[1].term
    /\ key = <<"bill tracker">>

---------------------------------------------------------------------------
(* Summary: the derived statistics of TestReport and print_summary *)

\* most outcomes of a report handed to print_summary directly
MaxSummarised == 2

\* sum(1 for r in self.results if 200 <= r.status_code < 300)
SuccessCount(rs) ==
    Cardinality({q \in 1..Len(rs) : 200 <= rs[q].status_code /\ rs[q].status_code < 300})

\* sum(1 for r in self.results if r.status_code in (429, 403))
RateLimitedCount(rs) ==
    Cardinality({q \in 1..Len(rs) : rs[q].status_code \in {429, 403}})

\* dict(sorted(counts.items())) of the defaultdict(int) of the statuses
StatusCounts(rs) ==
    [st \in {rs[q].status_code : q \in 1..Len(rs)} |->
        Cardinality({q \in 1..Len(rs) : rs[q].status_code = st})]

\* sum(lats) of lats = [r.latency_ms for r in self.results if r.error is None]
RECURSIVE SumLats(_, _)
SumLats(rs, k) ==
    IF k > Len(rs) THEN 0
    ELSE (IF rs[k].error = None THEN rs[k].latency_ms ELSE 0) + SumLats(rs, k + 1)

\* len(lats)
LenLats(rs) == Cardinality({q \in 1..Len(rs) : rs[q].error = None})

\* avg_latency: sum(lats) / len(lats) if lats else 0, in whole tenths of a
\* millisecond
AvgLatency(rs) ==
    IF LenLats(rs) # 0 THEN SumLats(rs, 1) \div LenLats(rs) ELSE 0

\* next((i for i, r in enumerate(results) if r.status_code in (429, 403)), None)
FirstLimited(rs) ==
    LET S == {q \in 1..Len(rs) : rs[q].status_code \in {429, 403}}
    IN IF S = {} THEN <<>> ELSE <<(CHOOSE q \in S : \A o \in S : q <= o) - 1>>

\* print_summary raises: len(report.results)/report.duration with a zero
\* duration is a ZeroDivisionError
SummaryRaises(r) == Duration(r) = 0

\* what print_summary prints of a report it gets through; the effective rate
\* in whole requests per second
SummaryOf(r) ==
    [total      |-> Len(r.results),
     duration   |-> Duration(r),
     rps        |-> (Len(r.results) * TicksPerSec) \div Duration(r),
     success    |-> SuccessCount(r.results),
     limited    |-> RateLimitedCount(r.results),
     avg        |-> AvgLatency(r.results),
     statuses   |-> StatusCounts(r.results),
     first      |-> IF RateLimitedCount(r.results) > 0
                      THEN FirstLimited(r.results) ELSE <<>>,
     per_term   |-> PerTermStats(r.results)]

\* the outcomes of the reports handed to print_summary directly
SummaryReplies == {Response(200, 1), Response(429, 1), Response(500, 1),
                   Failure("ReadTimeout")}

\* the outcome of a call issued at ts
SummaryOutcomes(ts) ==
    {SendRequest(CONFIG, None, ts, After(rp, ShortLatency)) : rp \in SummaryReplies}

\* the lists of at most MaxSummarised outcomes
SummaryResults(ts) ==
    UNION {[1..n -> SummaryOutcomes(ts)] : n \in 0..MaxSummarised}

InitSummary ==
    /\ InitCommon
    /\ pc = "report"
    /\ strategy = "summary"
    /\ args = NoArgs
    /\ call = NoSendCall

\* a TestReport as a run returns it, or TestReport() as constructed: the
\* results, start_time and end_time fields set
SummaryReport ==
    /\ pc = "report"
    /\ \E rs \in SummaryResults(now), st \in {0, now}, dt \in {0, TicksPerSec} :
         /\ report' = [results |-> rs, start_time |-> st, end_time |-> st + dt]
         /\ ret' = <<report'>>
    /\ pc' = "done"
    /\ UNCHANGED <<config, repeatVars, lookupVars, auxVars, now, strategy, args, issued, sendVars,
                   paceVars, rampVars, burstVars>>

\* print_summary(report, test_name)
PrintSummary ==
    /\ pc = "done"
    /\ IF SummaryRaises(ret[1])
         THEN /\ pc' = "summary_raised"
              /\ UNCHANGED summary
         ELSE /\ pc' = "printed"
              /\ summary' = <<SummaryOf(ret[1])>>
    /\ UNCHANGED <<config, repeatVars, lookupVars, now, strategy, args, report, ret, issued, sendVars,
                   paceVars, rampVars, burstVars, same_results, unique_results,
                   same_limited, unique_limited, conclusion, terms, key, stats,
                   finished_at>>

NextSummary == SummaryReport \/ PrintSummary

SpecSummary == InitSummary /\ [][NextSummary]_vars

---------------------------------------------------------------------------
(* Entry point: main *)

\* most requests of a burst started from main
MainTotal == 2

\* the replies the test request of main draws
ProbeReplies == RunReplies

\* the strategies and parameters main is started with
MainRuns ==
    ({"burst"} \X {Args(n, c, 0, 0, 0, 0, 0, "small") : n \in 0..MainTotal, c \in 0..2})
    \cup ({"sustained"} \X {Args(0, 0, r, d, 0, 0, 0, "small") : r \in {0, 2}, d \in 0..1})
    \cup ({"ramp"} \X {Args(0, 0, 0, 0, 2, 1, ss, "large") : ss \in {0, 2}})
    \cup ({"compare"} \X {Args(n, 0, r, 0, 0, 0, 0, "large") : n \in 0..1, r \in {0, 2}})

InitMain ==
    /\ InitCommon
    /\ pc = "main"
    /\ \E run \in MainRuns : strategy = run[1] /\ args = run[2]
    /\ call = NoSendCall

\* `if x:` on an optional string
Truthy(x) == x # None /\ x # ""

\* test = send_request(config, 0); if test.error: sys.exit(1); then the
\* strategy named by args.test is entered
MainProbe ==
    /\ pc = "main"
    /\ \E rp \in ProbeReplies :
         LET tr     == After(rp, ShortLatency)
             result == SendRequest(config, None, now, tr)
         IN /\ issued' = Append(issued,
                  [idx |-> 0, term |-> Params(config, None).term, ts |-> now])
            /\ now' = now + ShortLatency
            /\ IF SendRaises(tr)
                 THEN /\ pc' = "raised"
                      /\ test' = test
                 ELSE /\ test' = <<result>>
                      /\ pc' = IF Truthy(result.error) THEN "exit1" ELSE "enter"
    /\ UNCHANGED <<config, repeatVars, lookupVars, auxVars, strategy, args, report, ret, call,
                   paceVars, rampVars, burstVars>>

NextMain ==
    MainProbe \/ NextBurst \/ NextPacer \/ NextRamp \/ NextCompare \/ PrintSummary

SpecMain == InitMain /\ [][NextMain]_vars

\* the parameters the strategy of the run reads are invalid: a rate, a step
\* size or a concurrency that is not positive
InvalidArgs ==
    \/ strategy \in {"sustained", "compare"} /\ args.rps <= 0
    \/ strategy = "ramp" /\ args.step_size <= 0
    \/ strategy = "burst" /\ args.concurrency <= 0

\* C18 as stated: a run whose parameters are invalid fails before any request
\* is issued, so no HTTP call is sent in it
NoCallOnInvalidArgs ==
    InvalidArgs => issued = <<>>

\* C19 as stated: with valid parameters a run is never aborted before its
\* summary, whatever the outcomes of its calls are
RunAlwaysSummarised ==
    ~InvalidArgs => pc \notin {"exit1", "raised", "summary_raised"}

\* the report is empty, has only error outcomes, or has zero duration
DegenerateReport(r) ==
    \/ r.results = <<>>
    \/ \A q \in 1..Len(r.results) : r.results[q].error # None
    \/ Duration(r) = 0

\* C20 as stated: every derived statistic of a Report that is empty, has only
\* error outcomes or has zero duration yields a default instead of failing
SummaryDefinedOnDegenerate ==
    (pc \in {"printed", "summary_raised"} /\ DegenerateReport(ret[1])) =>
        /\ pc = "printed"
        /\ summary # <<>>

---------------------------------------------------------------------------
(* Outcome fields of send_request: body_preview and term *)

\* C21 as stated: every outcome with a status in 200..299 has an empty
\* bodyPreview
PreviewOnlyOnNon2xx ==
    \A k \in 1..Len(test) :
        (200 <= test[k].status_code /\ test[k].status_code < 300)
            => test[k].body_preview = <<>>

\* C22 as stated: the key recorded in an outcome is the key the call was sent
\* with, the override when one was given and the default key otherwise, for
\* responses and transport failures alike
KeyRecordedIsKeyUsed ==
    \A k \in 1..Len(test) :
        /\ test[k].term = issued[k].term
        /\ test[k].term = (IF call.term # None THEN call.term ELSE CONFIG.params.term)

---------------------------------------------------------------------------
(* Cancellation of a paced run: SIGINT, which Python delivers to the main
   thread as KeyboardInterrupt; the program installs no handler of its own *)

\* KeyboardInterrupt is raised in the main thread: inside requests.request
\* when a call is in flight, in the loop otherwise.  KeyboardInterrupt derives
\* from BaseException, so `except Exception` of send_request lets it through
\* and nothing in run_sustained_test or run_unique_terms_test catches it
PacerInterrupt ==
    /\ pc \in {"loop", "inflight"}
    /\ strategy \in {"sustained", "unique"}
    /\ IF pc = "inflight"
         THEN \E lat \in Latencies :
                LET tr == After(Failure("KeyboardInterrupt"), lat)
                IN /\ now' = now + lat
                   /\ IF SendRaises(tr)
                        THEN report' = report
                        ELSE report' = [report EXCEPT !.results =
                                Append(@, SendRequest(config, cur.term, cur.ts, tr))]
         ELSE /\ now' = now
              /\ report' = report
    /\ pc' = "interrupted"
    /\ UNCHANGED <<config, repeatVars, lookupVars, auxVars, strategy, args, ret, issued, sendVars,
                   paceVars, rampVars, burstVars>>

NextCancel == NextPacer \/ PacerInterrupt

SpecCancel == InitPacer /\ [][NextCancel]_vars

\* C23 as stated: when a cancellation signal arrives during a paced run the
\* call in flight completes and its outcome is recorded before the run stops;
\* an in-flight call is never aborted
CancelCompletesInFlight ==
    pc = "interrupted" => Len(report.results) = Len(issued)

---------------------------------------------------------------------------
(* iTunes lookup: lookup_app_metadata of appstore_search_rankings.py *)

\* most ids a lookup is asked for
MaxIds == 4

\* LOOKUP_BATCH_SIZE, scaled down from 150
LOOKUP_BATCH_SIZE == 2

\* time.sleep(0.5)
LookupPause == TicksPerSec \div 2

\* what urlopen, resp.read, decode and json.loads raise: HTTP error status,
\* unreachable host, read timeout, unparsable body
LookupErrors == {"HTTPError", "URLError", "TimeoutError", "JSONDecodeError"}

\* except (urllib.error.HTTPError, urllib.error.URLError)
LookupCaught == {"HTTPError", "URLError"}

\* app_ids[i:i + LOOKUP_BATCH_SIZE]
Batch(ids, k) == SubSeq(ids, k + 1, Min(k + LOOKUP_BATCH_SIZE, Len(ids)))

\* what a batch request can come back with: the results for some of the ids
\* asked for, or an exception
LookupReplies(batch) ==
    {[kind |-> "ok", found |-> f, exc |-> None] :
        f \in SUBSET {batch[q] : q \in 1..Len(batch)}}
    \cup {[kind |-> "raise", found |-> {}, exc |-> e] : e \in LookupErrors}

\* metadata[tid] = {"name": ..., ...} for every result of the batch
WithResults(md, found) ==
    [tid \in DOMAIN md \cup found |->
        IF tid \in found THEN [name |-> tid] ELSE md[tid]]

InitLookup ==
    /\ InitCommon
    /\ pc = "lookup"
    /\ strategy = "lookup"
    /\ args = NoArgs
    /\ call = NoSendCall

\* lookup_app_metadata(app_ids, country) is entered: metadata = {}
LookupEnter ==
    /\ pc = "lookup"
    /\ \E n \in 0..MaxIds : app_ids' = [q \in 1..n |-> q]
    /\ metadata' = [tid \in {} |-> [name |-> tid]]
    /\ i' = 0
    /\ pc' = "batch"
    /\ UNCHANGED <<config, repeatVars, auxVars, now, strategy, args, report, ret, issued,
                   sendVars, loop_start, cur, interval, total, rampVars,
                   burstVars, warned, batches>>

\* one iteration of `for i in range(0, len(app_ids), LOOKUP_BATCH_SIZE)`
LookupBatch ==
    /\ pc = "batch"
    /\ i < Len(app_ids)
    /\ \E rp \in LookupReplies(Batch(app_ids, i)) :
         /\ batches' = Append(batches, [start |-> i, reply |-> rp])
         /\ IF rp.kind = "raise"
              THEN IF rp.exc \in LookupCaught
                     THEN /\ warned' = Append(warned, i)
                          /\ i' = i + LOOKUP_BATCH_SIZE
                          /\ pc' = "batch"
                          /\ UNCHANGED <<metadata, now>>
                     ELSE /\ pc' = "raised"
                          /\ UNCHANGED <<metadata, warned, i, now>>
              ELSE /\ metadata' = WithResults(metadata, rp.found)
                   /\ now' = IF i + LOOKUP_BATCH_SIZE < Len(app_ids)
                               THEN now + LookupPause ELSE now
                   /\ i' = i + LOOKUP_BATCH_SIZE
                   /\ pc' = "batch"
                   /\ warned' = warned
    /\ UNCHANGED <<config, repeatVars, auxVars, strategy, args, report, ret, issued,
                   sendVars, loop_start, cur, interval, total, rampVars,
                   burstVars, app_ids>>

\* return metadata
LookupReturn ==
    /\ pc = "batch"
    /\ i >= Len(app_ids)
    /\ pc' = "done"
    /\ UNCHANGED <<config, repeatVars, lookupVars, auxVars, now, strategy, args, report,
                   ret, issued, sendVars, paceVars, rampVars, burstVars>>

NextLookup == LookupEnter \/ LookupBatch \/ LookupReturn

SpecLookup == InitLookup /\ [][NextLookup]_vars

\* the ids the successful batches returned
FoundSoFar == UNION {batches[q].reply.found : q \in 1..Len(batches)}

\* C24 as stated: a batch whose request fails for any reason is skipped and
\* reported, the remaining batches are still requested, and the returned
\* mapping has the entries of every batch that succeeded
FailedBatchSkipped ==
    pc \in {"done", "raised"} =>
        /\ pc = "done"
        /\ Len(batches) = (Len(app_ids) + LOOKUP_BATCH_SIZE - 1) \div LOOKUP_BATCH_SIZE
        /\ \A q \in 1..Len(batches) :
              batches[q].reply.kind = "raise" =>
                  \E w \in 1..Len(warned) : warned[w] = batches[q].start
        /\ DOMAIN metadata = FoundSoFar

---------------------------------------------------------------------------
(* The paced loops together: sustained, unique, the ramp steps and the two
   phases of compare *)

InitPaced == InitPacer \/ InitRamp \/ InitCompare

NextPaced == NextPacer \/ NextRamp \/ NextCompare

SpecPaced == InitPaced /\ [][NextPaced]_vars

\* the rate R of the loop being run, over RateDen
LoopRate == IF strategy = "ramp" THEN current_rps ELSE args.rps

\* a call of a paced loop, not the first of its loop, has just been issued
LaterCallInFlight ==
    pc \in {"inflight", "inflight1", "inflight2"} /\ cur.idx > 0

\* C25: in every paced loop an iteration sleeps for max(0, 1/R - elapsed)
\* after its call: consecutive calls are issued at least 1/R apart, and after
\* a call that took 1/R or longer the next call is issued with no sleep
PacedSpacing ==
    LaterCallInFlight =>
        LET n      == Len(issued)
            prev   == issued[n - 1].ts
            back   == finished_at[n - 1]
            period == (TicksPerSec * RateDen) \div LoopRate
        IN /\ Len(finished_at) = n - 1
           /\ issued[n].ts - prev >= period
           /\ issued[n].ts = Max(back, prev + period)
           /\ back - prev >= period => issued[n].ts = back

\* a sustained run at 1.5 requests per second: the first call took less than
\* 1/R and the second was issued 1/R after it; the second took longer than
\* 1/R and the third was issued as soon as it returned
PacedSpacing_w ==
    /\ strategy = "sustained" /\ args.rps = 3 /\ pc = "inflight"
    /\ Len(issued) = 3
    /\ finished_at[1] - issued[1].ts = ShortLatency
    /\ issued[2].ts - issued[1].ts = 40
    /\ finished_at[2] - issued[2].ts = LongLatency
    /\ issued[3].ts = finished_at[2]

---------------------------------------------------------------------------
(* The rotating strategies: run_unique_terms_test and run_burst_unique_test *)

InitUnique ==
    \/ InitBurst /\ strategy = "burst-unique"
    \/ InitPacer /\ strategy = "unique"

NextUnique == NextBurst \/ NextPacer

SpecUnique == InitUnique /\ [][NextUnique]_vars

\* the number of calls the run issues
UniqueTotal ==
    IF strategy = "burst-unique" THEN args.num_requests
    ELSE Floor(args.rps * args.duration, RateDen)

\* C26: in the unique and burst-unique strategies the call with index i
\* carries pool[i mod len(pool)], and in the Report every key has as many
\* outcomes as there are indices below total with that key, whatever the
\* completion order of a burst
UniqueKeyCounts ==
    LET pool == TERM_POOLS[args.pool]
        keyOf(k) == pool[(k % Len(pool)) + 1]
    IN /\ \A q \in 1..Len(issued) : issued[q].term = keyOf(issued[q].idx)
       /\ pc = "done" =>
            LET rs == ret[1].results
            IN /\ \A q \in 1..Len(rs) : \E p \in 1..Len(pool) : rs[q].term = pool[p]
               /\ \A p \in 1..Len(pool) :
                    Cardinality({q \in 1..Len(rs) : rs[q].term = pool[p]})
                      = Cardinality({k \in 0..(UniqueTotal - 1) : keyOf(k) = pool[p]})

\* a burst of three calls over the pool of two keys whose second call
\* completed first and whose first call failed: two outcomes for the first
\* key and one for the second
UniqueKeyCounts_w ==
    /\ pc = "done" /\ strategy = "burst-unique" /\ args.num_requests = 3
    /\ completed[1] = 1
    /\ OutcomeOf(0).status_code = 0
    /\ Cardinality({q \in 1..3 : ret[1].results[q].term = "bill tracker"}) = 2
    /\ Cardinality({q \in 1..3 : ret[1].results[q].term = "weather app"}) = 1

---------------------------------------------------------------------------
(* Repeat strategy: run_repeat_per_term_test *)

\* most requests per term a repeat run is asked for
MaxRepeats == 2

\* delay_between: none, or a tenth of a second
Delays == {0, TicksPerSec \div 10}

\* the argparse namespace with the two arguments only repeat reads
RepeatArgs ==
    {[num_requests |-> 0, concurrency |-> 0, rps |-> 0, duration |-> 0,
      max_rps |-> 0, step_duration |-> 0, step_size |-> 0, pool |-> p,
      repeats |-> n, delay |-> dl] :
        p \in {"small", "medium"}, n \in 0..MaxRepeats, dl \in Delays}

InitRepeat ==
    /\ InitCommon
    /\ pc = "enter"
    /\ strategy = "repeat"
    /\ args \in RepeatArgs
    /\ call = NoSendCall

\* the key taken by request number instead of by the outer loop
RepeatTerm_m(pool, k, num) == TermAt(pool, num - 1)

\* `for term in terms`: the term of the k-th round of the outer loop
RepeatTerm(pool, k, num) == pool[k + 1]

\* report.start_time = time.time();
\* terms = TERM_POOLS.get(pool_name, TERM_POOLS["small"]); req_num = 0;
\* total = len(terms) * repeats_per_term
RepeatEnter ==
    /\ pc = "enter"
    /\ strategy = "repeat"
    /\ report' = [NewReport EXCEPT !.start_time = now]
    /\ terms' = IF args.pool \in DOMAIN TERM_POOLS
                  THEN TERM_POOLS[args.pool] ELSE TERM_POOLS["small"]
    /\ req_num' = 0
    /\ total' = Len(terms') * args.repeats
    /\ i' = 0
    /\ j' = 0
    /\ pc' = "term"
    /\ UNCHANGED <<config, lookupVars, now, strategy, args, ret, issued,
                   sendVars, loop_start, cur, interval, rampVars, burstVars,
                   same_results, unique_results, same_limited, unique_limited,
                   conclusion, key, stats, summary, finished_at>>

\* req_num += 1; send_request(config, req_num, term=term) is entered
RepeatIssue ==
    /\ pc = "term"
    /\ strategy = "repeat"
    /\ i < Len(terms)
    /\ j < args.repeats
    /\ req_num' = req_num + 1
    /\ LET term == RepeatTerm(terms, i, req_num')
       IN /\ cur' = [idx |-> req_num', term |-> term, ts |-> now]
          /\ issued' = Append(issued,
                [idx |-> req_num', term |-> Params(config, term).term, ts |-> now])
    /\ pc' = "inflight"
    /\ UNCHANGED <<config, lookupVars, auxVars, now, strategy, args, report,
                   ret, sendVars, i, loop_start, interval, total, rampVars,
                   burstVars, j>>

\* send_request returns; the result is appended; the loop sleeps
\* delay_between unless this was the last request of the term
RepeatComplete ==
    /\ pc = "inflight"
    /\ strategy = "repeat"
    /\ \E rp \in RunReplies :
         LET tr == After(rp, ShortLatency)
         IN IF SendRaises(tr)
              THEN /\ pc' = "raised"
                   /\ now' = now + ShortLatency
                   /\ UNCHANGED <<report, j>>
              ELSE /\ report' = [report EXCEPT !.results =
                                    Append(@, SendRequest(config, cur.term, cur.ts, tr))]
                   /\ now' = IF args.delay > 0 /\ j < args.repeats - 1
                               THEN now + ShortLatency + args.delay
                               ELSE now + ShortLatency
                   /\ j' = j + 1
                   /\ pc' = "term"
    /\ UNCHANGED <<config, lookupVars, auxVars, strategy, args, ret, issued,
                   sendVars, paceVars, rampVars, burstVars, req_num>>

\* the inner loop is over: the outer loop takes the next term
RepeatNextTerm ==
    /\ pc = "term"
    /\ strategy = "repeat"
    /\ i < Len(terms)
    /\ j >= args.repeats
    /\ i' = i + 1
    /\ j' = 0
    /\ UNCHANGED <<config, lookupVars, auxVars, now, pc, strategy, args,
                   report, ret, issued, sendVars, loop_start, cur, interval,
                   total, rampVars, burstVars, req_num>>

\* report.end_time = time.time(); return report
RepeatExit ==
    /\ pc = "term"
    /\ strategy = "repeat"
    /\ i >= Len(terms)
    /\ report' = [report EXCEPT !.end_time = now]
    /\ ret' = <<report'>>
    /\ pc' = "done"
    /\ UNCHANGED <<config, repeatVars, lookupVars, auxVars, now, strategy,
                   args, issued, sendVars, paceVars, rampVars, burstVars>>

NextRepeat ==
    RepeatEnter \/ RepeatIssue \/ RepeatComplete \/ RepeatNextTerm \/ RepeatExit

SpecRepeat == InitRepeat /\ [][NextRepeat]_vars

\* the place of the key t in the pool
PlaceIn(pool, t) == CHOOSE p \in 1..Len(pool) : pool[p] = t

\* C27: the repeat strategy with n requests per key over a pool of m keys
\* issues exactly n*m calls, the keys in pool order, the n calls of a key one
\* after the other, and no call for a key after a call for a later key
RepeatVisitsInOrder ==
    LET pool == TERM_POOLS[args.pool]
        n    == args.repeats
        m    == Len(pool)
    IN /\ Len(issued) <= n * m
       /\ \A q \in 1..Len(issued) : issued[q].term = pool[((q - 1) \div n) + 1]
       /\ \A q, r \in 1..Len(issued) :
             q < r => PlaceIn(pool, issued[q].term) <= PlaceIn(pool, issued[r].term)
       /\ pc = "done" => Len(issued) = n * m /\ Len(ret[1].results) = n * m

\* two requests per key over the pool of three keys: six calls, the keys in
\* pairs
RepeatVisitsInOrder_w ==
    /\ pc = "done" /\ strategy = "repeat"
    /\ args.pool = "medium" /\ args.repeats = 2
    /\ Len(issued) = 6
    /\ issued[1].term = issued[2].term /\ issued[3].term = issued[4].term
    /\ issued[5].term = issued[6].term /\ issued[5].term = "fitness coach"
    /\ issued[2].term # issued[3].term

---------------------------------------------------------------------------
(* The Target Descriptor across calls: config in send_request *)

\* most calls of a sequence of send_request calls
MaxCalls == 3

\* the overrides the calls of a sequence draw
Overrides == {None, "weather app", "photo editor"}

InitOverride ==
    /\ InitCommon
    /\ pc = "calls"
    /\ strategy = "override"
    /\ args = NoArgs
    /\ call = NoSendCall

\* params = config["params"]: the override written into the shared dict
ConfigAfter_m(cfg, term) == [cfg EXCEPT !.params = Params(cfg, term)]

\* config after send_request(config, n, term): params = dict(config.get(
\* "params", {})) is a copy, params["term"] = term writes to the copy, and
\* nothing else of config is assigned
ConfigAfter(cfg, term) == cfg

\* the next send_request(config, n, term) of the sequence, from entry to
\* return
SendNext ==
    /\ pc = "calls"
    /\ Len(issued) < MaxCalls
    /\ \E t \in Overrides, rp \in BurstReplies :
         LET tr == After(rp, CallTicks)
         IN /\ call' = [term |-> t, tr |-> tr]
            /\ issued' = Append(issued,
                  [idx |-> Len(issued), term |-> Params(config, t).term, ts |-> now])
            /\ test' = Append(test, SendRequest(config, t, now, tr))
            /\ config' = ConfigAfter(config, t)
    /\ now' = now + CallTicks
    /\ UNCHANGED <<repeatVars, lookupVars, auxVars, pc, strategy, args, report,
                   ret, paceVars, rampVars, burstVars>>

NextOverride == SendNext

SpecOverride == InitOverride /\ [][NextOverride]_vars

\* C28: issuing calls with override keys leaves the Target Descriptor as it
\* was, default key included, and a later call without an override is sent
\* with the default key
DescriptorUnchanged ==
    /\ config = CONFIG
    /\ config.params.term = "bill tracker"
    /\ (Len(issued) > 0 /\ call.term = None) =>
          issued[Len(issued)].term = "bill tracker"

\* two calls with different override keys, then one without: it went out
\* with the default key
DescriptorUnchanged_w ==
    /\ Len(issued) = 3
    /\ issued[1].term = "weather app" /\ issued[2].term = "photo editor"
    /\ call.term = None
    /\ issued[3].term = "bill tracker"
    /\ test[3].error = None /\ test[3].term = "bill tracker"

---------------------------------------------------------------------------
(* Every strategy: when report.end_time is set *)

InitRuns ==
    \/ /\ InitCommon
       /\ pc = "enter"
       /\ strategy \in {"burst", "burst-unique"}
       /\ args \in {Args(n, c, 0, 0, 0, 0, 0, "small") :
                       n \in 0..MainTotal, c \in 0..MaxConcurrency}
       /\ call = NoSendCall
    \/ InitPacer
    \/ InitRamp
    \/ InitCompare
    \/ InitRepeat

NextRuns == NextBurst \/ NextPacer \/ NextRamp \/ NextCompare \/ NextRepeat

SpecRuns == InitRuns /\ [][NextRuns]_vars

\* report.end_time has been assigned (the clock starts above 0)
EndTimeSet == report.end_time # 0

\* no call of the run is being executed or waits to be
NothingInFlight ==
    /\ pc \notin {"inflight", "inflight1", "inflight2"}
    /\ InFlight = {}
    /\ work_queue = <<>>
    /\ \A t \in 1..Len(threads) : threads[t] = -1

\* C29: in every strategy the Report's endTime is recorded only after the
\* last outcome has been appended and, for bursts, after every worker has
\* finished: once endTime is set no call is in flight, every call issued has
\* its outcome in the Report, and the Report and the calls issued stay as
\* they are
EndTimeAfterLastOutcome ==
    /\ [](EndTimeSet =>
            /\ pc = "done"
            /\ NothingInFlight
            /\ Len(report.results) = Len(issued)
            /\ report.end_time >= report.start_time
            /\ \A q \in 1..Len(issued) : issued[q].ts <= report.end_time)
    /\ [][EndTimeSet => (report' = report /\ issued' = issued)]_vars

\* a burst of two calls on two workers has ended: both outcomes are in the
\* Report and both workers are idle
EndTimeAfterLastOutcome_w ==
    /\ EndTimeSet /\ strategy = "burst" /\ pc = "done"
    /\ args.num_requests = 2 /\ args.concurrency = 2
    /\ Len(threads) = 2
    /\ issued[2].ts < report.end_time
    /\ Len(report.results) = 2
    /\ NothingInFlight

---------------------------------------------------------------------------
(* Totality of the classification of run_same_vs_unique_test *)

\* C30 as stated: every pair of limited counts, uniqueLimited > 0 with
\* sameLimited = 0 included, produces exactly one conclusion
ClassificationTotal ==
    pc = "classified" => Len(conclusion) = 1

---------------------------------------------------------------------------
(* Termination of the ramp: run_ramp_test under a scheduler that lets the
   function run on, every call returning (timeout=30) *)

SpecRampFair == InitRamp /\ [][NextRamp]_vars /\ WF_vars(NextRamp)

\* the k-th step issued no request: floor(rate * stepDuration) is 0
EmptyStep(k) == steps[k].ended /\ steps[k].requests = 0

\* what holds of the steps of a ramp with a positive step size
RampStepsBounded ==
    /\ Len(steps) * args.step_size <= args.max_rps
    /\ Len(steps) <= Floor(args.max_rps, args.step_size)
    /\ \A k \in 1..Len(steps) :
          /\ steps[k].requests = Floor(steps[k].rate * args.step_duration, RateDen)
          /\ EmptyStep(k) =>
                /\ LimitedInStep(steps[k], report.results) = 0
                /\ k = Len(steps) => ~rate_limit_detected /\ marker = <<>>
                /\ k < Len(steps) => steps[k + 1].rate = steps[k].rate + args.step_size
                /\ (k = Len(steps) /\ pc = "done") =>
                      steps[k].rate + args.step_size > args.max_rps

\* C31: for every maxRate, every stepSize > 0 and every stepDuration >= 0 a
\* ramp run terminates after at most floor(maxRate/stepSize) steps, and a
\* step whose request count floor(rate*stepDuration) is 0 counts as 0%
\* limited and lets the ramp go on to the next rate
RampTerminates ==
    /\ [](args.step_size > 0 => RampStepsBounded)
    /\ <>(args.step_size <= 0 \/ pc = "done")

\* stepSize 1/2, maxRate 3/2, stepDuration 1: the step at 1/2 per second
\* issued no request, the steps at 1 and 3/2 issued one each, and the run
\* ended after floor(maxRate/stepSize) = 3 steps
RampTerminates_w ==
    /\ pc = "done"
    /\ args.step_size = 1 /\ args.max_rps = 3 /\ args.step_duration = 1
    /\ Len(steps) = 3
    /\ EmptyStep(1)
    /\ steps[2].requests = 1 /\ steps[3].requests = 1
    /\ Len(ret[1].results) = 2

=============================================================================
